---- MODULE Spec2Model ----
(***************************************************************************)
(* A model of the onboard API client: the json response wrapper and        *)
(* divide_chunks of util.py, and the endpoint methods of APIClient         *)
(* (client.py).  A client call is followed from the call to the return;    *)
(* a bulk call waits at every HTTP request for the response the server     *)
(* (the environment) chooses.                                              *)
(***************************************************************************)
EXTENDS Integers, Sequences, FiniteSets, TLC

VARIABLES
    pc,         \* "idle" | "running" | "done": where the caller's thread is
    method,     \* the client method being called ("" when idle)
    heap,       \* the list objects that outlive a call: [default, arg]
    args,       \* the value of the argument list when the call was made
    batch,      \* the batch size the call was made with (divide_chunks only)
    todo,       \* the slices (or buildings) the running loop has not reached yet
    requests,   \* the HTTP requests this call has issued, in order
    responses,  \* what the transport gave back for each of them, in order
    points,     \* the local accumulator of the bulk lookups
    argref,     \* which list object the call was given: "default", "arg" or "none"
    outcome     \* how the call ended: a returned value or a raised exception

vars == <<pc, method, heap, args, batch, todo, requests, responses, points, argref, outcome>>

-----------------------------------------------------------------------------
(* Bounds of the model. *)

\* the largest number of slices an argument list is cut into
MaxChunks == 3
\* divide_chunks called directly: the longest list and the largest batch size
MaxLen == 4
MaxBatch == 4

(* Program constants. *)
PointIdBatch == 500
DatasourceBatch == 125
UpdateBatch == 500

-----------------------------------------------------------------------------
(* Python values. *)

\* An exception object: its class, the text it was built from, and the
\* exception it was built from (OnboardApiException(e)), if any.
Exc(cls, text) == [cls |-> cls, text |-> text, wraps |-> <<>>]
Wrapping(cls, e) == [cls |-> cls, text |-> "", wraps |-> <<e>>]

\* A decoded JSON value: t is "int", "list" or "none" (Python's None);
\* e says what a list holds ("int", "dict", or "none" for the empty list).
JInt(n) == [t |-> "int", e |-> "none", v |-> <<n>>]
JList(e, s) == [t |-> "list", e |-> e, v |-> s]
PyNone == [t |-> "none", e |-> "none", v |-> <<>>]

\* What a decorated function hands to the wrapper: a response object,
\* None, or an exception raised on the way.
NoExc == Exc("", "")
Response(status, text) == [kind |-> "response", status |-> status, text |-> text, exc |-> NoExc]
ReturnsNone == [kind |-> "none", status |-> 0, text |-> "", exc |-> NoExc]
Raises(e) == [kind |-> "raise", status |-> 0, text |-> "", exc |-> e]

\* How a call ends.
Return(value) == [kind |-> "return", value |-> value, exc |-> NoExc]
Raise(e) == [kind |-> "raise", value |-> PyNone, exc |-> e]
NoOutcome == [kind |-> "none", value |-> PyNone, exc |-> NoExc]

-----------------------------------------------------------------------------
(* exceptions.py: OnboardTemporaryException derives from                   *)
(* OnboardApiException, which derives from Exception.                      *)
IsSubclass(cls, base) ==
    \/ cls = base
    \/ cls = "OnboardTemporaryException" /\ base = "OnboardApiException"
    \/ base = "Exception"

-----------------------------------------------------------------------------
(* res.json(): the bodies the model's server sends, and what they decode   *)
(* to.  A text that is not in the table is not JSON.                       *)
JsonTable ==
    [text \in {"[1,2]", "[3]", "[]", "7",
               "[{\"id\":1}]", "[{\"id\":1},{\"id\":2}]",
               "[{\"points\":[1,2]},{\"points\":[3]}]",
               "[{\"points\":[4,5]},{\"points\":[6]}]",
               "[{\"points\":[1,2]},{\"points\":[1]}]"} |->
        CASE text = "[1,2]" -> JList("int", <<1, 2>>)
          [] text = "[3]" -> JList("int", <<3>>)
          [] text = "[]" -> JList("none", <<>>)
          [] text = "7" -> JInt(7)
          [] text = "[{\"id\":1}]" -> JList("dict", <<[id |-> 1]>>)
          [] text = "[{\"id\":1},{\"id\":2}]" -> JList("dict", <<[id |-> 1], [id |-> 2]>>)
          [] text = "[{\"points\":[1,2]},{\"points\":[3]}]" ->
                JList("dict", <<[points |-> <<1, 2>>], [points |-> <<3>>]>>)
          [] text = "[{\"points\":[4,5]},{\"points\":[6]}]" ->
                JList("dict", <<[points |-> <<4, 5>>], [points |-> <<6>>]>>)
          [] text = "[{\"points\":[1,2]},{\"points\":[1]}]" ->
                JList("dict", <<[points |-> <<1, 2>>], [points |-> <<1>>]>>)]

IsJson(text) == text \in DOMAIN JsonTable
JsonLoads(text) == JsonTable[text]

-----------------------------------------------------------------------------
(* util.py *)

\* range(start, stop, step) for step >= 1
RECURSIVE Range(_, _, _)
Range(start, stop, step) ==
    IF start >= stop THEN <<>>
    ELSE <<start>> \o Range(start + step, stop, step)

\* the slice l[i:j+1]: one item too many
Slice_OneTooMany(l, i, j) == SubSeq(l, i + 1, IF j + 1 < Len(l) THEN j + 1 ELSE Len(l))

\* l[i:j] for 0 <= i <= j: the slice stops at the end of the list
Slice(l, i, j) == SubSeq(l, i + 1, IF j < Len(l) THEN j ELSE Len(l))

\* divide_chunks(l, n): the slices the generator yields, in order
divide_chunks(l, n) ==
    LET starts == Range(0, Len(l), n)
    IN [k \in 1..Len(starts) |-> Slice(l, starts[k], starts[k] + n)]

\* TryBody with the server-error threshold one too high (status > 500)
TryBody_TemporaryAbove500(f) ==
    IF f.kind = "raise" THEN Raise(f.exc)
    ELSE IF f.kind = "none" THEN Raise(Exc("AttributeError", "status_code"))
    ELSE IF f.status > 500 THEN Raise(Exc("OnboardTemporaryException", f.text))
    ELSE IF f.status > 399 THEN Raise(Exc("OnboardApiException", f.text))
    ELSE IF IsJson(f.text) THEN Return(JsonLoads(f.text))
    ELSE Raise(Exc("JSONDecodeError", f.text))

\* TryBody that takes every status above 299 for a client error
TryBody_RedirectIsError(f) ==
    IF f.kind = "raise" THEN Raise(f.exc)
    ELSE IF f.kind = "none" THEN Raise(Exc("AttributeError", "status_code"))
    ELSE IF f.status > 499 THEN Raise(Exc("OnboardTemporaryException", f.text))
    ELSE IF f.status > 299 THEN Raise(Exc("OnboardApiException", f.text))
    ELSE IF IsJson(f.text) THEN Return(JsonLoads(f.text))
    ELSE Raise(Exc("JSONDecodeError", f.text))

\* the try block of wrapper, given what func did
TryBody(f) ==
    IF f.kind = "raise" THEN Raise(f.exc)
    ELSE IF f.kind = "none" THEN Raise(Exc("AttributeError", "status_code"))
    ELSE IF f.status > 499 THEN Raise(Exc("OnboardTemporaryException", f.text))
    ELSE IF f.status > 399 THEN Raise(Exc("OnboardApiException", f.text))
    ELSE IF IsJson(f.text) THEN Return(JsonLoads(f.text))
    ELSE Raise(Exc("JSONDecodeError", f.text))

\* wrapper without its first except clause: every exception is wrapped
wrapper_WrapsEverything(f) ==
    LET r == TryBody(f)
    IN IF r.kind = "return" THEN r
       ELSE Raise(Wrapping("OnboardApiException", r.exc))

\* json(func).wrapper: the try block and its two except clauses
wrapper(f) ==
    LET r == TryBody(f)
    IN IF r.kind = "return" THEN r
       ELSE IF IsSubclass(r.exc.cls, "OnboardApiException") THEN r
       ELSE Raise(Wrapping("OnboardApiException", r.exc))

-----------------------------------------------------------------------------
(* The inputs of the model: argument lists and what the transport does.    *)

\* lengths around the multiples of batch size b, up to MaxChunks slices
Sizes(b) ==
    {0} \cup {q * b + r : q \in 0..(MaxChunks - 1),
                          r \in {x \in {1, 200, b - 1, b} : x >= 1 /\ x <= b}}

PointIdLists == {[i \in 1..n |-> i] : n \in Sizes(PointIdBatch)}
HashLists == {[i \in 1..n |-> <<"a", "b", "c">>[(i % 3) + 1]] : n \in Sizes(DatasourceBatch)}
UpdateLists == {[i \in 1..n |-> [point_id |-> i]] : n \in Sizes(UpdateBatch)}

RECURSIVE SeqsUpTo(_, _)
SeqsUpTo(S, n) ==
    IF n = 0 THEN {<<>>}
    ELSE LET shorter == SeqsUpTo(S, n - 1)
         IN shorter \cup {Append(s, x) : s \in {t \in shorter : Len(t) = n - 1}, x \in S}

SmallLists == SeqsUpTo({"x", "y"}, MaxLen)

Statuses == {200, 204, 399, 400, 404, 499, 500, 503}
Texts == {"[1,2]", "[]", "7", "", "not found", "[{\"id\":1}]"}
TransportErrors ==
    {Exc("ConnectionError", "down"),
     Exc("OnboardApiException", "no credentials"),
     Exc("OnboardTemporaryException", "try later")}

\* everything a decorated one-request function may hand to the wrapper
FuncOutcomes ==
    {Response(s, t) : s \in Statuses, t \in Texts} \cup {Raises(e) : e \in TransportErrors}

\* what the transport does for one request of a bulk lookup
LookupOutcomes ==
    {Response(200, "[{\"id\":1}]"), Response(399, "[{\"id\":1},{\"id\":2}]"),
     Response(200, "7"), Response(200, "not found"),
     Response(404, "not found"), Response(400, "[]"),
     Response(500, "[]"), Response(503, "busy"),
     Raises(Exc("ConnectionError", "down"))}

\* what the transport does for one POST of a bulk update
UpdateOutcomes ==
    {Response(200, "[]"), Response(404, "not found"), Response(503, "busy"),
     Raises(Exc("ConnectionError", "down")),
     Raises(Exc("OnboardTemporaryException", "try later"))}

\* what the transport does for the requests of get_all_points
BuildingsOutcomes ==
    {Response(200, "[]"), Response(200, "[{\"id\":1}]"),
     Response(200, "[{\"id\":1},{\"id\":2}]"),
     Response(200, "[{\"points\":[1,2]},{\"points\":[3]}]"),
     Response(200, "[1,2]"), Response(200, "7"), Response(200, ""),
     Response(404, "not found"), Response(503, "busy"),
     Raises(Exc("ConnectionError", "down"))}
EquipmentOutcomes ==
    {Response(200, "[]"),
     Response(200, "[{\"points\":[1,2]},{\"points\":[3]}]"),
     Response(200, "[{\"points\":[4,5]},{\"points\":[6]}]"),
     Response(200, "[{\"points\":[1,2]},{\"points\":[1]}]"),
     Response(200, "[{\"id\":1}]"), Response(200, "[1,2]"), Response(200, "7"),
     Response(200, "not found"), Response(404, "not found"), Response(503, "busy"),
     Raises(Exc("ConnectionError", "down"))}

-----------------------------------------------------------------------------
(* models.py: x.json() serializes a request model for the wire. *)
ModelJson(x) == [json |-> x]

\* one HTTP request: the verb, the path template, and what fills it
Request(verb, path, items) == [verb |-> verb, path |-> path, items |-> items]

\* the list objects a call leaves behind: the shared default of
\* update_point_data and the caller's argument list
HeapAfter(default, arg) == [default |-> default, arg |-> arg]

Init ==
    /\ pc = "idle"
    /\ method = ""
    /\ heap = HeapAfter(<<>>, <<>>)
    /\ args = <<>>
    /\ batch = 0
    /\ todo = <<>>
    /\ requests = <<>>
    /\ responses = <<>>
    /\ points = <<>>
    /\ argref = "none"
    /\ outcome = NoOutcome

-----------------------------------------------------------------------------
(* client.py: the methods that are one request passed through the wrapper *)
Endpoints ==
    {[m |-> "whoami", verb |-> "GET", path |-> "/whoami"],
     [m |-> "get_account_actions", verb |-> "GET", path |-> "/account-actions"],
     [m |-> "get_users", verb |-> "GET", path |-> "/users"],
     [m |-> "get_organizations", verb |-> "GET", path |-> "/organizations"],
     [m |-> "get_all_buildings", verb |-> "GET", path |-> "/buildings"],
     [m |-> "get_tags", verb |-> "GET", path |-> "/tags"],
     [m |-> "get_equipment_types", verb |-> "GET", path |-> "/equiptype"],
     [m |-> "get_building_equipment", verb |-> "GET",
      path |-> "/buildings/{building_id}/equipment?points=true"],
     [m |-> "select_points", verb |-> "POST", path |-> "/points/select"],
     [m |-> "get_all_point_types", verb |-> "GET", path |-> "/pointtypes"],
     [m |-> "get_all_measurements", verb |-> "GET", path |-> "/measurements"],
     [m |-> "get_all_units", verb |-> "GET", path |-> "/unit"],
     [m |-> "query_point_timeseries", verb |-> "POST", path |-> "/query"],
     [m |-> "get_ingest_stats", verb |-> "GET", path |-> "/ingest-stats"],
     [m |-> "get_alerts", verb |-> "GET", path |-> "/alerts"],
     [m |-> "copy_point_data", verb |-> "POST", path |-> "/point-data-copy"]}

\* a call that is over at once: no list argument, one request at most
Finish(m, reqs, resps, result) ==
    /\ pc' = "done"
    /\ method' = m
    /\ heap' = HeapAfter(heap.default, <<>>)
    /\ args' = <<>>
    /\ batch' = 0
    /\ todo' = <<>>
    /\ requests' = reqs
    /\ responses' = resps
    /\ points' = <<>>
    /\ argref' = "none"
    /\ outcome' = result

\* @json def <endpoint>(self, ...): return self.get(path) / self.post(path, ...)
call_endpoint(e, f) ==
    /\ pc = "idle"
    /\ Finish(e.m, <<Request(e.verb, e.path, <<>>)>>, <<f>>, wrapper(f))

\* @json def send_ingest_stats: the POST's response is dropped, nothing is returned
send_ingest_stats(f) ==
    /\ pc = "idle"
    /\ Finish("send_ingest_stats", <<Request("POST", "/ingest-stats", <<>>)>>, <<f>>,
              wrapper(IF f.kind = "raise" THEN f ELSE ReturnsNone))

\* divide_chunks called on a list, the generator run to its end
call_divide_chunks(l, n) ==
    /\ pc = "idle"
    /\ pc' = "done"
    /\ method' = "divide_chunks"
    /\ heap' = HeapAfter(heap.default, l)
    /\ args' = l
    /\ batch' = n
    /\ todo' = <<>>
    /\ requests' = <<>>
    /\ responses' = <<>>
    /\ points' = <<>>
    /\ argref' = "arg"
    /\ outcome' = Return(JList("list", divide_chunks(l, n)))

\* a call with a list argument reaches its first request, or ends without one
Begin(m, ref, l, n, reqs, rest, result) ==
    /\ pc' = (IF result.kind = "none" THEN "running" ELSE "done")
    /\ method' = m
    /\ heap' = HeapAfter(heap.default, IF ref = "arg" THEN l ELSE <<>>)
    /\ args' = l
    /\ batch' = n
    /\ todo' = rest
    /\ requests' = reqs
    /\ responses' = <<>>
    /\ points' = <<>>
    /\ argref' = ref
    /\ outcome' = result

\* a running call takes one response and reaches its next request, or ends
Continue(f, reqs, rest, acc, result) ==
    /\ pc' = (IF result.kind = "none" THEN "running" ELSE "done")
    /\ responses' = Append(responses, f)
    /\ requests' = reqs
    /\ todo' = rest
    /\ points' = acc
    /\ outcome' = result
    /\ UNCHANGED <<method, heap, args, batch, argref>>

\* the url of get_points_by_ids: '/points?point_ids=[' + ','.join(ids) + ']'
PointIdsRequest(chunk) == Request("GET", "/points?point_ids=", chunk)

\* the url of get_points_by_datasource: the quoted list of hashes, url-quoted
DatasourceRequest(chunk) == Request("GET", "/points?datasource_hashes=", chunk)

\* the body of one POST of update_point_data: [u.json() for u in batch]
UpdateRequest(chunk) ==
    Request("POST", "/points_update", [k \in 1..Len(chunk) |-> ModelJson(chunk[k])])

RequestFor(m, chunk) ==
    IF m = "get_points_by_ids" THEN PointIdsRequest(chunk)
    ELSE IF m = "get_points_by_datasource" THEN DatasourceRequest(chunk)
    ELSE UpdateRequest(chunk)

\* get_points_by_ids, get_points_by_datasource: up to the first get_points(url)
LookupBegin(m, l, n) ==
    LET chunks == divide_chunks(l, n)
    IN IF chunks = <<>>
       THEN Begin(m, "arg", l, n, <<>>, <<>>, Return(JList("none", <<>>)))
       ELSE Begin(m, "arg", l, n, <<RequestFor(m, Head(chunks))>>, Tail(chunks), NoOutcome)

\* LookupStep with `points = points_chunk` for `points += points_chunk`
LookupStep_KeepsLastChunk(f) ==
    LET r == wrapper(f)
    IN IF r.kind = "raise" THEN Continue(f, requests, todo, points, r)
       ELSE IF r.value.t # "list"
       THEN Continue(f, requests, todo, points, Raise(Exc("TypeError", "not iterable")))
       ELSE LET acc == r.value.v
            IN IF todo = <<>>
               THEN Continue(f, requests, todo, acc,
                             Return(JList(IF acc = <<>> THEN "none" ELSE "dict", acc)))
               ELSE Continue(f, Append(requests, RequestFor(method, Head(todo))),
                             Tail(todo), acc, NoOutcome)

\* LookupStep that swallows a slice's error and goes on with the next slice
LookupStep_SkipsFailedSlice(f) ==
    LET r == wrapper(f)
        acc == IF r.kind = "return" /\ r.value.t = "list" THEN points \o r.value.v ELSE points
    IN IF todo = <<>>
       THEN Continue(f, requests, todo, acc,
                     Return(JList(IF acc = <<>> THEN "none" ELSE "dict", acc)))
       ELSE Continue(f, Append(requests, RequestFor(method, Head(todo))),
                     Tail(todo), acc, NoOutcome)

\* points_chunk = get_points(url); points += points_chunk; the next slice
LookupStep(f) ==
    LET r == wrapper(f)
    IN IF r.kind = "raise" THEN Continue(f, requests, todo, points, r)
       ELSE IF r.value.t # "list"
       THEN Continue(f, requests, todo, points, Raise(Exc("TypeError", "not iterable")))
       ELSE LET acc == points \o r.value.v
            IN IF todo = <<>>
               THEN Continue(f, requests, todo, acc,
                             Return(JList(IF acc = <<>> THEN "none" ELSE "dict", acc)))
               ELSE Continue(f, Append(requests, RequestFor(method, Head(todo))),
                             Tail(todo), acc, NoOutcome)

get_points_by_ids(point_ids) ==
    /\ pc = "idle"
    /\ LookupBegin("get_points_by_ids", point_ids, PointIdBatch)

get_points_by_ids_response(f) ==
    /\ pc = "running"
    /\ method = "get_points_by_ids"
    /\ LookupStep(f)

get_points_by_datasource(datasource_hashes) ==
    /\ pc = "idle"
    /\ LookupBegin("get_points_by_datasource", datasource_hashes, DatasourceBatch)

get_points_by_datasource_response(f) ==
    /\ pc = "running"
    /\ method = "get_points_by_datasource"
    /\ LookupStep(f)

\* update_point_data that collects the caller's updates in its default list
update_point_data_FillsDefault(ref, l) ==
    /\ pc = "idle"
    /\ LET updates == IF ref = "default" THEN heap.default ELSE heap.default \o l
           chunks == divide_chunks(updates, UpdateBatch)
       IN /\ pc' = (IF chunks = <<>> THEN "done" ELSE "running")
          /\ method' = "update_point_data"
          /\ heap' = HeapAfter(updates, IF ref = "arg" THEN l ELSE <<>>)
          /\ args' = l
          /\ batch' = UpdateBatch
          /\ todo' = (IF chunks = <<>> THEN <<>> ELSE Tail(chunks))
          /\ requests' = (IF chunks = <<>> THEN <<>> ELSE <<UpdateRequest(Head(chunks))>>)
          /\ responses' = <<>>
          /\ points' = <<>>
          /\ argref' = ref
          /\ outcome' = (IF chunks = <<>> THEN wrapper(ReturnsNone) ELSE NoOutcome)

\* @json def update_point_data(self, updates=[]): up to the first POST.
\* ref says whether the caller passed a list or left the default in place.
update_point_data(ref, l) ==
    /\ pc = "idle"
    /\ LET updates == IF ref = "default" THEN heap.default ELSE l
           chunks == divide_chunks(updates, UpdateBatch)
       IN IF chunks = <<>>
          THEN Begin("update_point_data", ref, updates, UpdateBatch, <<>>, <<>>,
                     wrapper(ReturnsNone))
          ELSE Begin("update_point_data", ref, updates, UpdateBatch,
                     <<UpdateRequest(Head(chunks))>>, Tail(chunks), NoOutcome)

\* self.post(...) comes back: its response is dropped; the next batch, or
\* the function falls off its end and the wrapper gets None
update_point_data_response(f) ==
    /\ pc = "running"
    /\ method = "update_point_data"
    /\ IF f.kind = "raise" THEN Continue(f, requests, todo, points, wrapper(f))
       ELSE IF todo = <<>> THEN Continue(f, requests, todo, points, wrapper(ReturnsNone))
       ELSE Continue(f, Append(requests, UpdateRequest(Head(todo))), Tail(todo),
                     points, NoOutcome)

\* self.get_building_equipment(bldg_id)
EquipmentRequest(bldg_id) ==
    Request("GET", "/buildings/{building_id}/equipment?points=true", <<bldg_id>>)

\* EquipmentPoints that drops a point id it has already seen
RECURSIVE EquipmentPoints_Deduplicated(_)
EquipmentPoints_Deduplicated(equipment) ==
    IF equipment = <<>> THEN <<>>
    ELSE LET rest == EquipmentPoints_Deduplicated(Tail(equipment))
             seen == {rest[k] : k \in 1..Len(rest)}
         IN SelectSeq(Head(equipment).points, LAMBDA x : x \notin seen) \o rest

\* point_ids += e['points'] for every e of one building's equipment
RECURSIVE EquipmentPoints(_)
EquipmentPoints(equipment) ==
    IF equipment = <<>> THEN <<>>
    ELSE Head(equipment).points \o EquipmentPoints(Tail(equipment))

\* the head of `for b in buildings`: the next building's equipment request,
\* or `return point_ids` when no building is left
BuildingLoop(f, buildings, acc) ==
    IF buildings = <<>>
    THEN Continue(f, requests, <<>>, acc,
                  Return(JList(IF acc = <<>> THEN "none" ELSE "int", acc)))
    ELSE IF "id" \notin DOMAIN Head(buildings)
    THEN Continue(f, requests, buildings, acc, Raise(Exc("KeyError", "id")))
    ELSE Continue(f, Append(requests, EquipmentRequest(Head(buildings).id)),
                  Tail(buildings), acc, NoOutcome)

\* get_all_points: buildings = self.get_all_buildings() is sent
get_all_points ==
    /\ pc = "idle"
    /\ Begin("get_all_points", "none", <<>>, 0,
             <<Request("GET", "/buildings", <<>>)>>, <<>>, NoOutcome)

\* the list of buildings comes back through the wrapper; the loop starts
get_all_points_buildings(f) ==
    /\ pc = "running"
    /\ method = "get_all_points"
    /\ responses = <<>>
    /\ LET r == wrapper(f)
       IN IF r.kind = "raise" THEN Continue(f, requests, todo, points, r)
          ELSE IF r.value.t # "list"
          THEN Continue(f, requests, todo, points, Raise(Exc("TypeError", "not iterable")))
          ELSE IF r.value.e = "int"
          THEN Continue(f, requests, todo, points,
                        Raise(Exc("TypeError", "not subscriptable")))
          ELSE BuildingLoop(f, r.value.v, <<>>)

\* one building's equipment comes back through the wrapper; its points are
\* added and the loop goes on
get_all_points_equipment(f) ==
    /\ pc = "running"
    /\ method = "get_all_points"
    /\ responses # <<>>
    /\ LET r == wrapper(f)
       IN IF r.kind = "raise" THEN Continue(f, requests, todo, points, r)
          ELSE IF r.value.t # "list"
          THEN Continue(f, requests, todo, points, Raise(Exc("TypeError", "not iterable")))
          ELSE IF r.value.e = "int"
          THEN Continue(f, requests, todo, points,
                        Raise(Exc("TypeError", "not subscriptable")))
          ELSE IF \E k \in 1..Len(r.value.v) : "points" \notin DOMAIN r.value.v[k]
          THEN Continue(f, requests, todo, points, Raise(Exc("KeyError", "points")))
          ELSE BuildingLoop(f, todo, points \o EquipmentPoints(r.value.v))

\* the caller takes the value or the exception; the call's locals are gone
return_to_caller ==
    /\ pc = "done"
    /\ pc' = "idle"
    /\ method' = ""
    /\ heap' = HeapAfter(heap.default, <<>>)
    /\ args' = <<>>
    /\ batch' = 0
    /\ todo' = <<>>
    /\ requests' = <<>>
    /\ responses' = <<>>
    /\ points' = <<>>
    /\ argref' = "none"
    /\ outcome' = NoOutcome

Next ==
    \/ \E e \in Endpoints, f \in FuncOutcomes : call_endpoint(e, f)
    \/ \E f \in FuncOutcomes : send_ingest_stats(f)
    \/ \E l \in SmallLists, n \in 1..MaxBatch : call_divide_chunks(l, n)
    \/ \E l \in PointIdLists : get_points_by_ids(l)
    \/ \E f \in LookupOutcomes : get_points_by_ids_response(f)
    \/ \E l \in HashLists : get_points_by_datasource(l)
    \/ \E f \in LookupOutcomes : get_points_by_datasource_response(f)
    \/ \E l \in UpdateLists : update_point_data("arg", l)
    \/ update_point_data("default", <<>>)
    \/ \E f \in UpdateOutcomes : update_point_data_response(f)
    \/ get_all_points
    \/ \E f \in BuildingsOutcomes : get_all_points_buildings(f)
    \/ \E f \in EquipmentOutcomes : get_all_points_equipment(f)
    \/ return_to_caller

Spec == Init /\ [][Next]_vars

-----------------------------------------------------------------------------
(* Vocabulary of the properties below. *)

EndpointNames == {e.m : e \in Endpoints}
LookupNames == {"get_points_by_ids", "get_points_by_datasource"}

\* a response the claims call a success: status <= 399 and a JSON body
Succeeded(f) == f.kind = "response" /\ f.status <= 399 /\ IsJson(f.text)

\* a transport error that is already one of the two typed errors
IsTyped(e) == e.cls \in {"OnboardApiException", "OnboardTemporaryException"}

\* the error a failed request is specified to end in
ExpectedError(f) ==
    IF f.kind = "raise"
    THEN (IF IsTyped(f.exc) THEN f.exc
          ELSE [cls |-> "OnboardApiException", text |-> "", wraps |-> <<f.exc>>])
    ELSE IF f.status >= 500
    THEN [cls |-> "OnboardTemporaryException", text |-> f.text, wraps |-> <<>>]
    ELSE IF f.status >= 400
    THEN [cls |-> "OnboardApiException", text |-> f.text, wraps |-> <<>>]
    ELSE [cls |-> "OnboardApiException", text |-> "",
          wraps |-> <<[cls |-> "JSONDecodeError", text |-> f.text, wraps |-> <<>>]>>]

RECURSIVE Concat(_)
Concat(ss) == IF ss = <<>> THEN <<>> ELSE Head(ss) \o Concat(Tail(ss))

CeilDiv(n, b) == (n + b - 1) \div b

\* the k-th of the contiguous slices of width b of list l
NthSlice(l, k, b) ==
    SubSeq(l, (k - 1) * b + 1, IF k * b < Len(l) THEN k * b ELSE Len(l))

\* a finished call of one of the single-request wrapped methods
EndpointDone == pc = "done" /\ method \in EndpointNames

-----------------------------------------------------------------------------
\* C1: every 4xx response leaves the wrapper as a Permanent API Error
\* (OnboardApiException itself, nothing wrapped) whose message is the raw
\* body, every response with status >= 500 as a Temporary API Error whose
\* message is the raw body; no value is returned in either case.
C1_StatusDecidesErrorClass ==
    (EndpointDone /\ responses[1].kind = "response") =>
        LET f == responses[1]
        IN /\ (f.status >= 400 /\ f.status <= 499) =>
                  /\ outcome.kind = "raise"
                  /\ outcome.exc.cls = "OnboardApiException"
                  /\ outcome.exc.text = f.text
                  /\ outcome.exc.wraps = <<>>
           /\ f.status >= 500 =>
                  /\ outcome.kind = "raise"
                  /\ outcome.exc.cls = "OnboardTemporaryException"
                  /\ outcome.exc.text = f.text
                  /\ outcome.exc.wraps = <<>>

C1_Witness ==
    /\ EndpointDone
    /\ responses[1].kind = "response"
    /\ responses[1].status = 500
    /\ responses[1].text = "not found"
    /\ outcome.exc.cls = "OnboardTemporaryException"

\* C2: a response with status <= 399 and a JSON body leaves the wrapper as
\* the returned value the body decodes to; nothing is raised.
C2_SuccessReturnsParsedValue ==
    (EndpointDone /\ Succeeded(responses[1])) =>
        /\ outcome.kind = "return"
        /\ outcome.value = JsonTable[responses[1].text]
        /\ outcome.exc = NoExc

C2_Witness ==
    /\ EndpointDone
    /\ responses[1].kind = "response"
    /\ responses[1].status = 399
    /\ responses[1].text = "[1,2]"
    /\ outcome.kind = "return"
    /\ outcome.value.v = <<1, 2>>

\* C3: an exception that is not one of the two typed errors (a transport
\* error, a body that is not JSON on a status <= 399) leaves the wrapper as
\* an OnboardApiException built from that exception; a typed error leaves
\* it as the very same error, class and message, wrapping nothing.
C3_ExceptionsWrappedOnce ==
    EndpointDone =>
        LET f == responses[1]
        IN /\ (f.kind = "raise" /\ ~IsTyped(f.exc)) =>
                  /\ outcome.kind = "raise"
                  /\ outcome.exc.cls = "OnboardApiException"
                  /\ outcome.exc.wraps = <<f.exc>>
           /\ (f.kind = "response" /\ f.status <= 399 /\ ~IsJson(f.text)) =>
                  /\ outcome.kind = "raise"
                  /\ outcome.exc.cls = "OnboardApiException"
                  /\ Len(outcome.exc.wraps) = 1
                  /\ outcome.exc.wraps[1].cls = "JSONDecodeError"
           /\ (f.kind = "raise" /\ IsTyped(f.exc)) =>
                  /\ outcome.kind = "raise"
                  /\ outcome.exc = f.exc

C3_Witness ==
    /\ EndpointDone
    /\ responses[1].kind = "raise"
    /\ responses[1].exc.cls = "OnboardTemporaryException"
    /\ outcome.kind = "raise"
    /\ outcome.exc = responses[1].exc

\* C4: when a POST of update_point_data comes back with a status >= 500,
\* the call ends in a Temporary API Error and that POST was its last one.
C4_ServerErrorAbortsUpdate ==
    (pc = "done" /\ method = "update_point_data") =>
        \A k \in 1..Len(responses) :
            (responses[k].kind = "response" /\ responses[k].status >= 500) =>
                /\ outcome.kind = "raise"
                /\ outcome.exc.cls = "OnboardTemporaryException"
                /\ Len(requests) = k

\* C5: divide_chunks(l, B) for B >= 1 yields ceil(N/B) slices of length
\* 1..B whose concatenation is l; the last one has N mod B items, or B when
\* B divides N; nothing is yielded for the empty list.
C5_ChunksPartitionInput ==
    (pc = "done" /\ method = "divide_chunks") =>
        LET chunks == outcome.value.v
            N == Len(args)
            B == batch
        IN /\ Len(chunks) = CeilDiv(N, B)
           /\ \A k \in 1..Len(chunks) : Len(chunks[k]) >= 1 /\ Len(chunks[k]) <= B
           /\ \A k \in 1..Len(chunks) : chunks[k] = NthSlice(args, k, B)
           /\ Concat(chunks) = args
           /\ N > 0 => Len(chunks[Len(chunks)]) = (IF N % B = 0 THEN B ELSE N % B)
           /\ N = 0 => chunks = <<>>

C5_Witness ==
    /\ pc = "done"
    /\ method = "divide_chunks"
    /\ args = <<"x", "y", "y">>
    /\ batch = 2
    /\ outcome.value.v = <<<<"x", "y">>, <<"y">>>>

\* C6: get_points_by_ids over N ids, every request succeeding with a JSON
\* list, issues ceil(N/500) GETs, the k-th carrying the k-th slice of at
\* most 500 ids (500, 500, 200 for N = 1200), and returns the decoded lists
\* concatenated in request order.
C6_PointIdsChunkedAndConcatenated ==
    (/\ pc = "done"
     /\ method = "get_points_by_ids"
     /\ \A k \in 1..Len(responses) :
            Succeeded(responses[k]) /\ JsonTable[responses[k].text].t = "list") =>
        LET N == Len(args)
        IN /\ Len(requests) = CeilDiv(N, 500)
           /\ Len(responses) = Len(requests)
           /\ \A k \in 1..Len(requests) :
                  /\ requests[k].verb = "GET"
                  /\ requests[k].path = "/points?point_ids="
                  /\ requests[k].items = NthSlice(args, k, 500)
                  /\ Len(requests[k].items) <= 500
           /\ N = 1200 =>
                  [k \in 1..Len(requests) |-> Len(requests[k].items)] = <<500, 500, 200>>
           /\ outcome.kind = "return"
           /\ outcome.value.v =
                  Concat([k \in 1..Len(responses) |-> JsonTable[responses[k].text].v])

C6_Witness ==
    /\ pc = "done"
    /\ method = "get_points_by_ids"
    /\ Len(args) = 1200
    /\ Len(requests) = 3
    /\ outcome.kind = "return"
    /\ outcome.value.v = <<[id |-> 1], [id |-> 1], [id |-> 2], [id |-> 1]>>

\* C7: in the two bulk lookups, a request that fails (status >= 400, a body
\* that is not JSON, a transport error) ends the call: the call raises the
\* wrapper's error for that request, returns nothing, and that request is
\* the last one issued; every request issued is a different slice, the
\* slices in order, none sent twice.
C7_LookupFailsFast ==
    method \in LookupNames =>
        /\ \A k \in 1..Len(responses) :
               ~Succeeded(responses[k]) =>
                   /\ pc = "done"
                   /\ k = Len(responses)
                   /\ Len(requests) = k
                   /\ outcome.kind = "raise"
                   /\ outcome.exc = ExpectedError(responses[k])
                   /\ outcome.value = PyNone
        /\ \A k \in 1..Len(requests) : requests[k].items = NthSlice(args, k, batch)

C7_Witness ==
    /\ pc = "done"
    /\ method = "get_points_by_datasource"
    /\ Len(args) = 375
    /\ Len(responses) = 2
    /\ responses[2] = Response(503, "busy")
    /\ Len(requests) = 2
    /\ todo # <<>>
    /\ points # <<>>
    /\ outcome.kind = "raise"
    /\ outcome.exc.cls = "OnboardTemporaryException"

\* a buildings response get_all_points can walk: a JSON list of dicts with ids
BuildingsListed(f) ==
    /\ Succeeded(f)
    /\ JsonTable[f.text].t = "list"
    /\ JsonTable[f.text].e # "int"
    /\ \A k \in 1..Len(JsonTable[f.text].v) : "id" \in DOMAIN JsonTable[f.text].v[k]

\* an equipment response get_all_points can walk: a JSON list of dicts with points
EquipmentListed(f) ==
    /\ Succeeded(f)
    /\ JsonTable[f.text].t = "list"
    /\ JsonTable[f.text].e # "int"
    /\ \A k \in 1..Len(JsonTable[f.text].v) : "points" \in DOMAIN JsonTable[f.text].v[k]

\* the point lists of one equipment response, in order
PointLists(f) ==
    [k \in 1..Len(JsonTable[f.text].v) |-> JsonTable[f.text].v[k].points]

\* C8: get_all_points asks for the buildings, then for the equipment of
\* each building once, in the order the buildings came; when all succeed it
\* returns the point ids flattened by building, equipment and position,
\* duplicates kept; a request that fails ends the call in that error.
C8_AllPointsFlattenedInOrder ==
    method = "get_all_points" =>
        /\ requests[1] = [verb |-> "GET", path |-> "/buildings", items |-> <<>>]
        /\ \A k \in 1..Len(responses) :
               ~Succeeded(responses[k]) =>
                   /\ pc = "done"
                   /\ k = Len(responses)
                   /\ Len(requests) = k
                   /\ outcome.kind = "raise"
                   /\ outcome.exc = ExpectedError(responses[k])
        /\ (responses # <<>> /\ BuildingsListed(responses[1])) =>
               LET buildings == JsonTable[responses[1].text].v
               IN /\ Len(requests) <= 1 + Len(buildings)
                  /\ \A j \in 2..Len(requests) :
                         /\ requests[j].verb = "GET"
                         /\ requests[j].path = "/buildings/{building_id}/equipment?points=true"
                         /\ requests[j].items = <<buildings[j - 1].id>>
                  /\ (pc = "done" /\ \A j \in 2..Len(responses) : EquipmentListed(responses[j])) =>
                         /\ Len(requests) = 1 + Len(buildings)
                         /\ Len(responses) = Len(requests)
                         /\ outcome.kind = "return"
                         /\ outcome.value.v =
                                Concat([j \in 1..(Len(responses) - 1) |->
                                           Concat(PointLists(responses[j + 1]))])

C8_Witness ==
    /\ pc = "done"
    /\ method = "get_all_points"
    /\ Len(requests) = 3
    /\ responses[2].text = "[{\"points\":[1,2]},{\"points\":[3]}]"
    /\ responses[3].text = "[{\"points\":[4,5]},{\"points\":[6]}]"
    /\ outcome.kind = "return"
    /\ outcome.value.v = <<1, 2, 3, 4, 5, 6>>

\* C9: a call of a wrapped method all of whose requests came back with a
\* status <= 399 and a JSON body returns; it raises nothing.
C9_SuccessfulCallReturns ==
    (/\ pc = "done"
     /\ method \in EndpointNames \cup {"update_point_data", "send_ingest_stats"}
     /\ \A k \in 1..Len(responses) : Succeeded(responses[k])) =>
        outcome.kind = "return"

\* C10: no call changes a list it was given or the shared default list of
\* update_point_data, which stays empty; update_point_data() without an
\* argument therefore issues no request, whatever was called before.
C10_CallsLeaveListsAlone ==
    /\ heap.default = <<>>
    /\ argref = "arg" => heap.arg = args
    /\ (method = "update_point_data" /\ argref = "default") =>
           /\ args = <<>>
           /\ requests = <<>>
           /\ pc = "done"

C10_Witness ==
    /\ pc = "done"
    /\ method = "get_points_by_ids"
    /\ Len(args) = 501
    /\ Len(responses) = 2
    /\ outcome.kind = "return"
    /\ Len(outcome.value.v) = 3
    /\ heap.arg = args

====
